---- MODULE Spec2Model ----
(***************************************************************************)
(* A state-machine model of rl_baselines/cma_es.py: the CMAES trainer      *)
(* (constructor, train, save), the module-level load, and PytorchPolicy.   *)
(* Instances k = 0..n_population-1 of the code are 1..N here.              *)
(***************************************************************************)
EXTENDS Integers, Sequences, FiniteSets, TLC

(* ------------------------------ bounds --------------------------------- *)
N == 2              \* n_population, the population size
ParamLen == 2       \* PytorchPolicy.param_len of the modelled network
MaxBudget == 5      \* largest num_updates passed to train
MaxEpLen == 3       \* the environment ends every episode within this many steps

Inst == 1..N
ObsVals == {0, 1}
\* observation batches the environment returns at a reset: neighbouring
\* instances see different observations
ObsBatches == {[i \in Inst |-> (i + s) % 2] : s \in ObsVals}
\* budgets passed to train: negative, zero, reached exactly by one step, and
\* the largest
Budgets == {-1, 0, N, MaxBudget}
\* vectors handed to a direct call of setParam: one entry short, exact, one
\* entry long; the entries differ from every weight the trainer writes
ParamInputs == {[j \in 1..n |-> 1 + j] : n \in (ParamLen - 1)..(ParamLen + 1)}
Seeds == {0, 1}

None == <<>>        \* Python None (an absent vector / the no-op action)

(* ------------------------------ policy --------------------------------- *)
\* The wrapped network: one output per parameter, out[j] = w[j] + obs*(j-1).
model(w, o) == [j \in 1..ParamLen |-> w[j] + o * (j - 1)]

\* F.softmax(v, dim=-1), as the numerators over the common denominator
\* (the sum of the numerators): entry j is base^v[j], with base 2 for e
softmax(v) == [j \in 1..Len(v) |-> 2 ^ v[j]]

\* 0-based index of the last maximal entry
argmax_Last(v) ==
    (CHOOSE j \in 1..Len(v) :
        /\ \A m \in 1..Len(v) : v[m] <= v[j]
        /\ \A m \in (j + 1)..Len(v) : v[m] < v[j]) - 1

\* np.argmax: 0-based index of the first maximal entry.
argmax(v) ==
    (CHOOSE j \in 1..Len(v) :
        /\ \A m \in 1..Len(v) : v[m] <= v[j]
        /\ \A m \in 1..(j - 1) : v[m] < v[j]) - 1

\* PytorchPolicy.getAction
getAction(pol, o) ==
    IF pol.continuous_actions
    THEN model(pol.params, o)
    ELSE <<argmax(softmax(model(pol.params, o)))>>

\* the sizes of the tensors of model.parameters(), in order; their sum is
\* param_len
TensorSizes == <<1, ParamLen - 1>>

\* nn.utils.vector_to_parameters from tensor i on: each tensor takes the next
\* slice of vec; a slice that is too short cannot be viewed as the tensor and
\* raises, the tensors before it being written already; entries of vec
\* beyond the last tensor are never read.
RECURSIVE vector_to_parameters(_, _, _, _)
vector_to_parameters(vec, w, i, pointer) ==
    IF i > Len(TensorSizes) THEN [params |-> w, raised |-> FALSE]
    ELSE IF pointer + TensorSizes[i] > Len(vec) THEN [params |-> w, raised |-> TRUE]
    ELSE vector_to_parameters(
            vec,
            [j \in 1..Len(w) |->
                IF pointer < j /\ j <= pointer + TensorSizes[i] THEN vec[j] ELSE w[j]],
            i + 1, pointer + TensorSizes[i])

\* PytorchPolicy.setParam: the policy it leaves
setParam(pol, param) ==
    [pol EXCEPT !.params = vector_to_parameters(param, pol.params, 1, 0).params]

\* PytorchPolicy.setParam: whether the call raises
setParamRaises(pol, param) == vector_to_parameters(param, pol.params, 1, 0).raised

getParamSpace(pol) == pol.param_len

(* ------------------------- search strategy ----------------------------- *)
\* cma.CMAEvolutionStrategy(dimension * [mu], sigma, {'popsize': n}).
EsInit(dim, mu, sigma) ==
    [mean |-> [j \in 1..dim |-> mu], sigma |-> sigma,
     xbest |-> None, fbest |-> 0, pending |-> None]

\* es.ask() with the random source in state seed: candidate i is the mean
\* with one coordinate moved, the coordinate depending on the seed and on i.
Sample(mean, seed, i) ==
    [j \in 1..Len(mean) |->
        IF j = ((seed + i) % Len(mean)) + 1 THEN (mean[j] + 1) % 2 ELSE mean[j]]

EsAskResult(es, n, seed) == [i \in 1..n |-> Sample(es.mean, seed, i)]

EsAsk(es, pop) == [es EXCEPT !.pending = pop]

\* index of the best (lowest) fitness, lowest index on ties
BestIdx(fit) ==
    CHOOSE i \in 1..Len(fit) :
        /\ \A m \in 1..Len(fit) : fit[i] <= fit[m]
        /\ \A m \in 1..(i - 1) : fit[i] < fit[m]

\* es.tell(population, fitness): the distribution moves to the best candidate,
\* and the best-ever solution is kept.
EsTell(es, pop, fit) ==
    LET b == BestIdx(fit)
        improves == es.xbest = None \/ fit[b] < es.fbest
    IN  [es EXCEPT !.mean = pop[b],
                   !.xbest = IF improves THEN pop[b] ELSE es.xbest,
                   !.fbest = IF improves THEN fit[b] ELSE es.fbest,
                   !.pending = None]

\* es.result.xbest
xbest(es) == es.xbest

(* ------------------------------ state ---------------------------------- *)
VARIABLES
    pc,          \* position in train: idle, while, rollout, step, callback, returned, raised
    self,        \* CMAES.__dict__
    num_updates, \* train argument
    callback,    \* train argument: TRUE when a callback is supplied
    step,        \* local of train
    obs, r, population, done, actions,   \* locals of train
    t,           \* environment: steps since the last reset
    hist,        \* observation of the calls made: counters, last arguments, and
                 \* of the last step: revoked (new_done was False for a done
                 \* instance), merged (every new_done flag is in done)
    ckpt         \* the checkpoint file, the trainer it was saved from, the trainer
                 \* load constructed, the trainer load returned

vars == <<pc, self, num_updates, callback, step, obs, r, population, done,
          actions, t, hist, ckpt>>

locals == <<obs, r, population, done, actions>>

(* --------------------------- construction ------------------------------ *)
\* PytorchPolicy.__init__
PytorchPolicy(w, continuous_actions) ==
    [params |-> w, param_len |-> TensorSizes[1] + TensorSizes[2],
     continuous_actions |-> continuous_actions]

\* CMAES.__init__
CMAES(n_population, policy, mu, sigma, continuous_actions) ==
    LET es == EsInit(getParamSpace(policy), mu, sigma)
    IN  [policy |-> policy,
         n_population |-> n_population,
         init_mu |-> mu,
         init_sigma |-> sigma,
         continuous_actions |-> continuous_actions,
         es |-> es,
         best_model |-> xbest(es)]

Zeros == [i \in Inst |-> 0]
AllFalse == [i \in Inst |-> FALSE]

Init ==
    /\ pc = "idle"
    /\ \E c \in BOOLEAN :
          self = CMAES(N, PytorchPolicy([j \in 1..ParamLen |-> 0], c), 0, 1, c)
    /\ num_updates = 0
    /\ callback = FALSE
    /\ step = 0
    /\ obs = Zeros /\ r = Zeros
    /\ population = [i \in Inst |-> None]
    /\ actions = [i \in Inst |-> None]
    /\ done = AllFalse
    /\ t = 0
    /\ hist = [nAsk |-> 0, nTell |-> 0, nStep |-> 0, nCallback |-> 0, nReset |-> 0,
               askPop |-> None, tellPop |-> None, tellFit |-> None,
               configured |-> {}, queried |-> {}, genStart |-> 0,
               revoked |-> FALSE, merged |-> TRUE, raisedBy |-> "none",
               setCall |-> None]
    /\ ckpt = [blob |-> None, from |-> None, fresh |-> None, loaded |-> None]

(* ------------------------------ train ---------------------------------- *)
\* line 169/176: train(env, callback, num_updates) is entered
TrainCall ==
    /\ pc = "idle"
    /\ \E b \in Budgets, cb \in BOOLEAN :
          /\ num_updates' = b
          /\ callback' = cb
    /\ step' = 0
    /\ pc' = "while"
    /\ UNCHANGED <<self, locals, t, hist, ckpt>>

\* the outer loop going on when the counter equals the budget
WhileCond_Inclusive(st, budget) == st <= budget

\* the outer loop as a do-while: the first pass is made whatever the budget
WhileCond_DoWhile(st, budget) == st < budget \/ st = 0

\* line 178: the condition of the outer loop
WhileCond(st, budget) == st < budget

\* line 178, condition false: train returns
TrainReturn ==
    /\ pc = "while"
    /\ ~WhileCond(step, num_updates)
    /\ pc' = "returned"
    /\ UNCHANGED <<self, num_updates, callback, step, locals, t, hist, ckpt>>

\* a generation starting with the accumulator and the flags of the last one
GenStart_KeepRollout ==
    /\ pc = "while"
    /\ WhileCond(step, num_updates)
    /\ \E o \in ObsBatches, seed \in Seeds :
          LET pop == EsAskResult(self.es, self.n_population, seed)
          IN  /\ obs' = o
              /\ population' = pop
              /\ self' = [self EXCEPT !.es = EsAsk(self.es, pop)]
    /\ t' = 0
    /\ hist' = [hist EXCEPT !.nAsk = @ + 1, !.nReset = @ + 1, !.genStart = step,
                            !.askPop = population']
    /\ pc' = "rollout"
    /\ UNCHANGED <<num_updates, callback, step, r, done, actions, ckpt>>

\* lines 178-182: condition true; reset, zero rewards, ask, clear flags
GenStart ==
    /\ pc = "while"
    /\ WhileCond(step, num_updates)
    /\ \E o \in ObsBatches, seed \in Seeds :
          LET pop == EsAskResult(self.es, self.n_population, seed)
          IN  /\ obs' = o
              /\ population' = pop
              /\ self' = [self EXCEPT !.es = EsAsk(self.es, pop)]
    /\ r' = Zeros
    /\ done' = AllFalse
    /\ t' = 0
    /\ hist' = [hist EXCEPT !.nAsk = @ + 1, !.nReset = @ + 1, !.genStart = step,
                            !.askPop = population']
    /\ pc' = "rollout"
    /\ UNCHANGED <<num_updates, callback, step, actions, ckpt>>

\* line 179: env.reset() raises; the exception leaves train before the
\* accumulator, the ask and the flags of lines 180-182
ResetRaise ==
    /\ pc = "while"
    /\ WhileCond(step, num_updates)
    /\ hist' = [hist EXCEPT !.raisedBy = "reset"]
    /\ pc' = "raised"
    /\ UNCHANGED <<self, num_updates, callback, step, locals, t, ckpt>>

\* done.all()
all(dn) == \A i \in Inst : dn[i]

\* the rollout loop also ending when the counter reaches the budget
RolloutCond_Budget(dn, st, budget) == ~all(dn) /\ st < budget

\* the rollout loop ending as soon as one instance is done
RolloutCond_Any(dn, st, budget) == ~(\E i \in Inst : dn[i])

\* line 183: the condition of the rollout loop
RolloutCond(dn, st, budget) == ~all(dn)

\* One pass of the for loop for instance k with the policy set to candidate
\* c: setParam, getAction, the action appended.
Configure(k, b, c, o) ==
    LET p2 == setParam(b.policy, c)
    IN  [policy |-> p2,
         actions |-> Append(b.actions, getAction(p2, o[k])),
         cfg |-> b.cfg \cup {k},
         qry |-> b.qry \cup {k}]

\* the for loop without the test of line 186: an action for every instance
RECURSIVE BuildActions_NoMask(_, _, _, _, _)
BuildActions_NoMask(k, b, pop, o, dn) ==
    IF k > N THEN b
    ELSE CHOOSE res \in {BuildActions_NoMask(k + 1, nb, pop, o, dn) :
                            nb \in {Configure(k, b, pop[k], o)}} : TRUE

\* the for loop with the policy always set to the first candidate
RECURSIVE BuildActions_FirstCandidate(_, _, _, _, _)
BuildActions_FirstCandidate(k, b, pop, o, dn) ==
    IF k > N THEN b
    ELSE CHOOSE res \in {BuildActions_FirstCandidate(k + 1, nb, pop, o, dn) :
                            nb \in {IF ~dn[k]
                                    THEN Configure(k, b, pop[1], o)
                                    ELSE [b EXCEPT !.actions = Append(@, None)]}} : TRUE

\* lines 184-192: the for loop from instance k on. b holds the policy, the
\* actions appended so far, and the instances for which setParam (cfg) and
\* getAction (qry) were called; nb is b after the pass for instance k.
RECURSIVE BuildActions(_, _, _, _, _)
BuildActions(k, b, pop, o, dn) ==
    IF k > N THEN b
    ELSE CHOOSE res \in {BuildActions(k + 1, nb, pop, o, dn) :
                            nb \in {IF ~dn[k]
                                    THEN Configure(k, b, pop[k], o)
                                    ELSE [b EXCEPT !.actions = Append(@, None)]}} : TRUE

\* line 183 condition true, lines 184-192
Rollout ==
    /\ pc = "rollout"
    /\ RolloutCond(done, step, num_updates)
    /\ \E b \in {BuildActions(1, [policy |-> self.policy, actions |-> <<>>,
                                  cfg |-> {}, qry |-> {}],
                              population, obs, done)} :
          /\ actions' = b.actions
          /\ self' = [self EXCEPT !.policy = b.policy]
          /\ hist' = [hist EXCEPT !.configured = b.cfg, !.queried = b.qry]
    /\ pc' = "step"
    /\ UNCHANGED <<num_updates, callback, step, obs, r, population, done, t, ckpt>>

\* the flags merged by a logical and
DoneMerge_And(dn, nd) == [i \in Inst |-> dn[i] /\ nd[i]]

\* the flags of this step replacing the merged ones
DoneMerge_Overwrite(dn, nd) == nd

\* line 197
DoneMerge(dn, nd) == [i \in Inst |-> dn[i] \/ nd[i]]

\* accumulation masked by the flags from before the step
Accumulate_PreMergeMask(acc, dnOld, dnNew, rew) ==
    [i \in Inst |-> IF ~dnOld[i] THEN acc[i] + rew[i] ELSE acc[i]]

\* line 200: r[~done] += reward[~done], done being the merged flags
Accumulate(acc, dnOld, dnNew, rew) ==
    [i \in Inst |-> IF ~dnNew[i] THEN acc[i] + rew[i] ELSE acc[i]]

\* the observation batch the environment returns after a step: every
\* instance's observation changes
EnvObs(o) == [i \in Inst |-> 1 - o[i]]

\* the reward batch the environment returns with observation batch o: never
\* 0, and different for neighbouring instances
EnvReward(o) == [i \in Inst |-> 1 + o[i]]

\* done batches the environment may return on its (t+1)-th step after a reset
EnvDone(dn) ==
    {nd \in [Inst -> BOOLEAN] :
        t + 1 >= MaxEpLen => \A i \in Inst : dn[i] \/ nd[i]}

\* the callback skipped on the step that ends the rollout
CallbackPc_Unfinished(cb, dn) == IF cb /\ ~all(dn) THEN "callback" ELSE "rollout"

\* line 202: where train goes after the accumulation
CallbackPc(cb, dn) == IF cb THEN "callback" ELSE "rollout"

\* the counter advanced by the number of instances still running
StepInc_Running(st, n, dn) == st + Cardinality({i \in Inst : ~dn[i]})

\* line 195: step += self.n_population, whatever the flags dn
StepInc(st, n, dn) == st + n

\* lines 194-202
EnvStep ==
    /\ pc = "step"
    /\ t < MaxEpLen
    /\ \E nd \in EnvDone(done) :
          /\ obs' = EnvObs(obs)
          /\ done' = DoneMerge(done, nd)
          /\ r' = Accumulate(r, done, DoneMerge(done, nd), EnvReward(obs'))
          /\ hist' = [hist EXCEPT !.nStep = @ + 1,
                                  !.revoked = \E i \in Inst : done[i] /\ ~nd[i],
                                  !.merged = \A i \in Inst : nd[i] => done'[i]]
    /\ step' = StepInc(step, self.n_population, done)
    /\ t' = t + 1
    /\ pc' = CallbackPc(callback, done')
    /\ UNCHANGED <<self, num_updates, callback, population, actions, ckpt>>

\* env.step() raising, the exception swallowed and the rollout going on
StepRaise_Caught ==
    /\ pc = "step"
    /\ hist' = [hist EXCEPT !.raisedBy = "step"]
    /\ pc' = "rollout"
    /\ UNCHANGED <<self, num_updates, callback, step, locals, t, ckpt>>

\* line 194: env.step(actions) raises; the exception leaves train before the
\* counter, the flags and the accumulator are touched
StepRaise ==
    /\ pc = "step"
    /\ hist' = [hist EXCEPT !.raisedBy = "step"]
    /\ pc' = "raised"
    /\ UNCHANGED <<self, num_updates, callback, step, locals, t, ckpt>>

\* line 203, the callback returns
CallbackReturn ==
    /\ pc = "callback"
    /\ hist' = [hist EXCEPT !.nCallback = @ + 1]
    /\ pc' = "rollout"
    /\ UNCHANGED <<self, num_updates, callback, step, locals, t, ckpt>>

\* line 203, the callback raises: the exception leaves train
CallbackRaise ==
    /\ pc = "callback"
    /\ hist' = [hist EXCEPT !.nCallback = @ + 1, !.raisedBy = "callback"]
    /\ pc' = "raised"
    /\ UNCHANGED <<self, num_updates, callback, step, locals, t, ckpt>>

\* the reward handed to tell without the negation
Fitness_NotNegated(acc) == acc

\* line 206: the fitness handed to tell
Fitness(acc) == [i \in Inst |-> 0 - acc[i]]

\* the generation ending without line 206
Tell_WithoutTell ==
    /\ pc = "rollout"
    /\ ~RolloutCond(done, step, num_updates)
    /\ self' = [self EXCEPT !.best_model = xbest(self.es)]
    /\ pc' = "while"
    /\ UNCHANGED <<num_updates, callback, step, locals, t, hist, ckpt>>

\* the generation ending without line 207
Tell_NoRefresh ==
    /\ pc = "rollout"
    /\ ~RolloutCond(done, step, num_updates)
    /\ self' = [self EXCEPT !.es = EsTell(self.es, population, Fitness(r))]
    /\ hist' = [hist EXCEPT !.nTell = @ + 1, !.tellPop = population,
                            !.tellFit = Fitness(r)]
    /\ pc' = "while"
    /\ UNCHANGED <<num_updates, callback, step, locals, t, ckpt>>

\* line 183 condition false, lines 205-207
Tell ==
    /\ pc = "rollout"
    /\ ~RolloutCond(done, step, num_updates)
    /\ LET es2 == EsTell(self.es, population, Fitness(r))
       IN  self' = [self EXCEPT !.es = es2, !.best_model = xbest(es2)]
    /\ hist' = [hist EXCEPT !.nTell = @ + 1, !.tellPop = population,
                            !.tellFit = Fitness(r)]
    /\ pc' = "while"
    /\ UNCHANGED <<num_updates, callback, step, locals, t, ckpt>>

(* ---------------------------- checkpoint ------------------------------- *)
\* the attributes of a CMAES object, in the order __init__ assigns them
Keys == <<"policy", "n_population", "init_mu", "init_sigma",
          "continuous_actions", "es", "best_model">>

\* pickle.dump of a dict: the stream of its (key, value) items
pickle_dump(d) == [i \in 1..Len(Keys) |-> <<Keys[i], d[Keys[i]]>>]

\* pickle.load: the dict of the items of the stream
pickle_load(b) ==
    [k \in {b[i][1] : i \in DOMAIN b} |->
        b[CHOOSE i \in DOMAIN b : b[i][1] = k][2]]

\* CMAES.save: pickle.dump(self.__dict__, f)
save(trainer) == pickle_dump(trainer)

\* the object as constructed, line 217 missing
SetDict_Keep(object, class_dict) == object

\* the saved attributes copied onto the object, the action-space mode left
\* as constructed
SetDict_KeepMode(object, class_dict) ==
    [k \in DOMAIN class_dict |->
        IF k = "continuous_actions" THEN object[k] ELSE class_dict[k]]

\* model.__dict__ = class_dict: every attribute of the object is now the
\* one of class_dict
SetDict(object, class_dict) == class_dict

\* line 216: the trainer constructed from four saved fields,
\* continuous_actions left at its default
Construct(class_dict) ==
    CMAES(class_dict["n_population"], class_dict["policy"],
          class_dict["init_mu"], class_dict["init_sigma"], FALSE)

\* load: unpickle, construct, then replace __dict__
load(blob) ==
    LET class_dict == pickle_load(blob)
    IN  SetDict(Construct(class_dict), class_dict)

Save ==
    /\ pc \in {"returned", "raised"}
    /\ ckpt.blob = None
    /\ ckpt' = [ckpt EXCEPT !.blob = save(self), !.from = self]
    /\ UNCHANGED <<pc, self, num_updates, callback, step, locals, t, hist>>

Load ==
    /\ ckpt.blob # None
    /\ ckpt.loaded = None
    /\ ckpt' = [ckpt EXCEPT !.fresh = Construct(pickle_load(ckpt.blob)),
                            !.loaded = load(ckpt.blob)]
    /\ UNCHANGED <<pc, self, num_updates, callback, step, locals, t, hist>>

\* policy.setParam(param) called by the user of the module, once train is over
SetParamCall ==
    /\ pc = "returned"
    /\ hist.setCall = None
    /\ ckpt.blob = None
    /\ \E param \in ParamInputs :
          /\ self' = [self EXCEPT !.policy = setParam(self.policy, param)]
          /\ hist' = [hist EXCEPT !.setCall =
                          [len |-> Len(param),
                           raised |-> setParamRaises(self.policy, param),
                           before |-> self.policy.params]]
    /\ UNCHANGED <<pc, num_updates, callback, step, locals, t, ckpt>>

\* the steps of train in which no call raises
TrainStep ==
    \/ TrainCall
    \/ TrainReturn
    \/ GenStart
    \/ Rollout
    \/ EnvStep
    \/ CallbackReturn
    \/ Tell

\* the steps of train
TrainNext ==
    \/ TrainStep
    \/ ResetRaise
    \/ StepRaise
    \/ CallbackRaise

Next ==
    \/ TrainNext
    \/ Save
    \/ Load
    \/ SetParamCall

Spec == Init /\ [][Next]_vars

\* train alone, a sequential program: while no call raises it always takes
\* its next step
LiveSpec == Init /\ [][TrainNext]_vars /\ WF_vars(TrainStep)

(* ------------------------------ claims --------------------------------- *)
InGeneration == pc \in {"rollout", "step", "callback"}

\* C1: within one generation (no new ask), every step leaves the cumulative
\* reward of an instance that is done after the step unchanged: neither the
\* reward of the step on which it first reports done nor any later one is added.
C1_RewardFrozenOnceDone ==
    [][hist'.nAsk = hist.nAsk =>
          \A i \in Inst : done'[i] => r'[i] = r[i]]_vars

\* an instance reported done on the first step of the generation, its reward
\* (never 0) was not added, and the rollout went on for the other instance
C1_Witness ==
    /\ InGeneration /\ t >= 2
    /\ \E i, j \in Inst : done[i] /\ r[i] = 0 /\ r[j] > 1

\* C2: within one generation a done-flag that is true stays true, whatever
\* new_done the environment returns.
C2_DoneMonotone ==
    [][hist'.nAsk = hist.nAsk =>
          \A i \in Inst : done[i] => done'[i]]_vars

\* the environment returned new_done = False for an instance that is done
C2_Witness ==
    /\ InGeneration /\ t >= 2
    /\ hist.revoked
    /\ \E i, j \in Inst : done[i] /\ ~done[j]

\* C3: in every environment step, an instance already done is sent None and
\* the policy is neither set (setParam) nor queried (getAction) for it.
C3_DoneGetsNoOp ==
    pc = "step" =>
        \A k \in Inst : done[k] =>
            /\ actions[k] = None
            /\ k \notin hist.configured
            /\ k \notin hist.queried

\* a step is about to be taken with one instance done and another running
C3_Witness ==
    /\ pc = "step"
    /\ \E k, j \in Inst : done[k] /\ actions[k] = None /\ ~done[j] /\ actions[j] # None

\* C4: the fitness passed to tell is the negated reward vector, index by index.
C4_FitnessIsNegatedReward ==
    (hist.nTell > 0 /\ pc \in {"while", "returned"}) =>
        /\ DOMAIN hist.tellFit = Inst
        /\ \A i \in Inst : hist.tellFit[i] = 0 - r[i]

\* tell was called with differing, non-zero rewards
C4_Witness ==
    /\ hist.nTell > 0 /\ pc = "while"
    /\ \E i, j \in Inst : r[i] > 0 /\ r[j] > r[i] /\ hist.tellFit[j] = 0 - r[j]

\* C5 as stated: at normal return the counter is >= the budget and
\* < budget + N.
C5_Original ==
    pc = "returned" => (step >= num_updates /\ step < num_updates + N)

\* C5 amended: at normal return the counter is >= the budget; when a
\* generation ran, the counter was < the budget at the start of the last
\* generation and has grown by N per step of it (t steps), so it is
\* < budget + N * t.
C5_CounterAtReturn ==
    pc = "returned" =>
        /\ step >= num_updates
        /\ hist.nAsk > 0 =>
              /\ hist.genStart < num_updates
              /\ step = hist.genStart + N * t
              /\ step < num_updates + N * t

\* train returned with the counter at least N past the budget
C5_Witness ==
    pc = "returned" /\ hist.nAsk > 0 /\ step >= num_updates + N

\* C6: a call of train terminates (every episode ending, nothing raising):
\* from the loop head, train eventually returns unless a call raised.
C6_TrainTerminates ==
    [](pc = "while" => <>(pc = "returned" \/ hist.raisedBy # "none"))

\* train returned after two complete generations
C6_Witness ==
    pc = "returned" /\ hist.nTell >= 2 /\ hist.raisedBy = "none"

\* C7: ask and tell alternate, ask first; tell receives the population of
\* the preceding ask and a fitness vector of length N.
C7_AskTellAlternate ==
    [][/\ hist'.nAsk # hist.nAsk =>
            /\ hist.nAsk = hist.nTell
            /\ hist'.nAsk = hist.nAsk + 1
            /\ hist'.nTell = hist.nTell
       /\ hist'.nTell # hist.nTell =>
            /\ hist.nAsk = hist.nTell + 1
            /\ hist'.nTell = hist.nTell + 1
            /\ hist'.nAsk = hist.nAsk
            /\ hist.askPop # None
            /\ hist'.tellPop = hist.askPop
            /\ DOMAIN hist'.tellPop = 1..N
            /\ DOMAIN hist'.tellFit = 1..N]_vars

\* the second tell of a run, with the population of the second ask
C7_Witness ==
    /\ hist.nAsk = 2 /\ hist.nTell = 2
    /\ hist.tellPop = hist.askPop /\ hist.tellPop = population

\* C8: a generation that has begun is left only by tell with all flags true
\* (or by a raised failure), also when the counter has reached the budget;
\* at normal return there are as many tells as asks.
C8_NoCancellation ==
    [][/\ hist'.nTell # hist.nTell => all(done)
       /\ (InGeneration /\ pc' \notin {"rollout", "step", "callback", "raised"}) =>
              (all(done) /\ hist'.nTell = hist.nTell + 1 /\ pc' = "while")
       /\ pc' = "returned" => hist'.nAsk = hist'.nTell]_vars

\* train returned although the budget was reached before the last step of
\* the last generation
C8_Witness ==
    /\ pc = "returned" /\ hist.nAsk >= 1 /\ hist.nTell = hist.nAsk
    /\ step - N >= num_updates

C10_Callback ==
    /\ [](/\ callback =>
                hist.nCallback = hist.nStep - (IF pc = "callback" THEN 1 ELSE 0)
          /\ ~callback => hist.nCallback = 0
          /\ pc = "callback" => hist.merged
          /\ hist.raisedBy = "callback" =>
                (pc = "raised" /\ hist.nTell = hist.nAsk - 1))
    /\ [][/\ pc = "callback" => (r' = r /\ done' = done /\ step' = step)
          /\ hist'.raisedBy = "callback" =>
                /\ self'.best_model = self.best_model
                /\ self'.es = self.es
                /\ hist'.nTell = hist.nTell]_vars

\* the callback raised in a second generation: the best parameters are
\* those of the first
C10_Witness ==
    /\ pc = "raised" /\ hist.raisedBy = "callback"
    /\ hist.nTell = 1 /\ hist.nAsk = 2
    /\ self.best_model # None /\ hist.nCallback >= 2

\* C11: a failure of env.reset or env.step leaves train at once; from then on
\* no reset, step, ask or tell is issued, and the search distribution and
\* best_model stay as the last completed generation left them.
C11_EnvFailureFatal ==
    /\ [](hist.raisedBy \in {"reset", "step"} =>
            /\ pc = "raised"
            /\ hist.raisedBy = "reset" => hist.nTell = hist.nAsk
            /\ hist.raisedBy = "step" => hist.nTell = hist.nAsk - 1
            /\ self.best_model = xbest(self.es))
    /\ [][hist'.raisedBy \in {"reset", "step"} =>
            /\ self'.best_model = self.best_model
            /\ self'.es.mean = self.es.mean
            /\ self'.es.sigma = self.es.sigma
            /\ self'.es.xbest = self.es.xbest
            /\ self'.es.fbest = self.es.fbest
            /\ hist'.nReset = hist.nReset
            /\ hist'.nStep = hist.nStep
            /\ hist'.nAsk = hist.nAsk
            /\ hist'.nTell = hist.nTell]_vars

\* env.step raised in the second generation, after a first complete one
C11_Witness ==
    /\ pc = "raised" /\ hist.raisedBy = "step"
    /\ hist.nTell = 1 /\ hist.nAsk = 2
    /\ self.best_model # None

\* C12 as stated: setParam called with a vector whose length is not
\* param_len raises and writes no weight.
C12_ShapeMismatch ==
    (hist.setCall # None /\ hist.setCall.len # getParamSpace(self.policy)) =>
        /\ hist.setCall.raised
        /\ self.policy.params = hist.setCall.before

\* C13: in discrete mode the action computed for a running instance is the
\* 0-based index of the maximum of the model's output, the lowest such index
\* when several outputs are maximal.
C13_ArgmaxLowestIndex ==
    (pc = "step" /\ ~self.policy.continuous_actions) =>
        \A k \in Inst : ~done[k] =>
            LET out == model(population[k], obs[k])
                a == actions[k][1] + 1
            IN  /\ Len(actions[k]) = 1
                /\ a \in 1..Len(out)
                /\ \A m \in 1..Len(out) : out[m] <= out[a]
                /\ \A m \in 1..(a - 1) : out[m] < out[a]

\* two outputs tie for the maximum and index 0 is the action; for another
\* instance the maximum is at a higher index
C13_Witness ==
    /\ pc = "step" /\ ~self.policy.continuous_actions
    /\ \E k, i \in Inst :
          /\ ~done[k] /\ ~done[i]
          /\ model(population[k], obs[k])[1] = model(population[k], obs[k])[2]
          /\ actions[k] = <<0>>
          /\ actions[i] = <<1>>

\* C14: the action batch of a step has N entries in instance order, and the
\* entry of a running instance i is the action of the policy with the
\* parameters population[i] on the observation obs[i].
C14_ActionFromOwnCandidate ==
    pc = "step" =>
        /\ DOMAIN actions = 1..N
        /\ \A i \in Inst : ~done[i] =>
              /\ i \in hist.configured /\ i \in hist.queried
              /\ actions[i] =
                    getAction([self.policy EXCEPT !.params = population[i]], obs[i])

\* a step after the first of a generation, with two running instances whose
\* candidates and actions differ
C14_Witness ==
    /\ pc = "step" /\ t >= 1
    /\ \E i, j \in Inst :
          /\ ~done[i] /\ ~done[j]
          /\ population[i] # population[j]
          /\ actions[i] # actions[j]

\* C15: the step counter grows by exactly N on every environment step,
\* masked instances included, and changes at no other point.
C15_CounterByN ==
    [][IF hist'.nStep # hist.nStep
       THEN hist'.nStep = hist.nStep + 1 /\ step' = step + N
       ELSE step' = step]_vars

\* two steps were counted, the last one with a masked instance
C15_Witness ==
    /\ InGeneration /\ pc # "step" /\ t >= 2
    /\ step = N * hist.nStep
    /\ \E i \in Inst : done[i] /\ actions[i] = None

\* C16: tell is called only with all N flags true, no environment step is
\* issued with all N flags true, and a rollout in which some flag is still
\* false goes on to the next environment step.
C16_RolloutUntilAllDone ==
    [][/\ hist'.nTell # hist.nTell => all(done)
       /\ hist'.nStep # hist.nStep => ~all(done)
       /\ (pc = "rollout" /\ ~all(done)) => pc' = "step"]_vars

\* all flags are true at the loop test, one instance having finished on the
\* first step and another one later
C16_Witness ==
    /\ pc = "rollout" /\ all(done) /\ t >= 2
    /\ \E i, j \in Inst : r[i] = 0 /\ r[j] > 0


\* C17: in a generation that has not yet taken an environment step (the
\* counter is still the one the generation began with), the environment has
\* been reset once per ask and not stepped since, every cumulative reward is
\* zero and every done-flag is false.
C17_FreshRolloutState ==
    (InGeneration /\ step = hist.genStart) =>
        /\ hist.nReset = hist.nAsk
        /\ t = 0
        /\ r = Zeros
        /\ done = AllFalse

\* a later generation before its first step, the generation before it having
\* ended with a non-zero fitness
C17_Witness ==
    /\ InGeneration /\ step = hist.genStart
    /\ hist.nAsk >= 2 /\ hist.nTell = hist.nAsk - 1
    /\ \E i \in Inst : hist.tellFit[i] < 0


\* C18: best_model is the strategy's current best at construction; a step
\* that is a tell leaves it equal to the strategy's current best, and every
\* other step (ask, reset, environment step, setParam, getAction, callback,
\* save, load) leaves it as it was.
C18_BestModelFrame ==
    /\ self.best_model = xbest(self.es)
    /\ [][/\ hist'.nTell # hist.nTell => self'.best_model = xbest(self'.es)
          /\ hist'.nTell = hist.nTell => self'.best_model = self.best_model]_vars

\* after a second tell that did not improve on the first: the cached best is
\* the one of the earlier generation, the distribution has moved on
C18_Witness ==
    /\ pc = "while" /\ hist.nTell >= 2
    /\ self.best_model # None
    /\ self.best_model # self.es.mean
    /\ self.best_model \notin {hist.tellPop[i] : i \in Inst}


\* C19: the trainer load constructs is the one __init__ builds from the saved
\* population size, policy, initial mean and initial sigma (default
\* action-space mode, untrained distribution); the trainer load returns has
\* every attribute equal to the saved one, so wherever the constructed and the
\* saved value differ it is the saved value that is left.
C19_ConstructThenOverwrite ==
    ckpt.loaded # None =>
        /\ ckpt.fresh = CMAES(ckpt.from.n_population, ckpt.from.policy,
                              ckpt.from.init_mu, ckpt.from.init_sigma, FALSE)
        /\ ckpt.fresh.es = EsInit(getParamSpace(ckpt.from.policy),
                                  ckpt.from.init_mu, ckpt.from.init_sigma)
        /\ \A i \in 1..Len(Keys) :
              /\ ckpt.loaded[Keys[i]] = ckpt.from[Keys[i]]
              /\ ckpt.fresh[Keys[i]] # ckpt.from[Keys[i]]
                    => ckpt.loaded[Keys[i]] # ckpt.fresh[Keys[i]]

\* a load where the constructed trainer differs from the saved one in the
\* action-space mode, the distribution and the cached best
C19_Witness ==
    /\ ckpt.loaded # None
    /\ ckpt.fresh.continuous_actions # ckpt.from.continuous_actions
    /\ ckpt.fresh.es # ckpt.from.es
    /\ ckpt.fresh.best_model # ckpt.from.best_model
    /\ ckpt.loaded["continuous_actions"] /\ ckpt.loaded["es"] = ckpt.from.es


\* C20: a call of train with a budget <= 0 goes from the loop head straight
\* to its return, and from its entry on nothing has happened: no reset, no
\* environment step, no ask, no tell, no callback, no exception, the counter
\* is 0, and the cached best and the search distribution are the ones of the
\* construction.
C20_NoBudgetNoEffect ==
    /\ []((pc # "idle" /\ num_updates <= 0) =>
            /\ pc \in {"while", "returned"}
            /\ hist.nReset = 0 /\ hist.nStep = 0
            /\ hist.nAsk = 0 /\ hist.nTell = 0
            /\ hist.nCallback = 0 /\ hist.raisedBy = "none"
            /\ step = 0
            /\ self.best_model = None
            /\ self.es = EsInit(ParamLen, 0, 1))
    /\ [][(pc = "while" /\ num_updates <= 0) => pc' = "returned"]_vars

\* train returned from a call with a callback and a budget <= 0
C20_Witness ==
    pc = "returned" /\ num_updates <= 0 /\ callback /\ hist.nCallback = 0

====
